---- MODULE Spec2Model ----
(***************************************************************************)
(* Model of the EnergiTech consolidation pipeline (scripts/transform.py,    *)
(* scripts/load.py, scripts/main_pipeline.py and the extractors).           *)
(*                                                                          *)
(* Python values are tagged records, so that None, NaN, numbers, strings    *)
(* and booleans stay distinct.  Numbers (float, int, Decimal) are counted   *)
(* in hundredths: Num(1230) is 12.3, Num(28010) is 280.1.                   *)
(***************************************************************************)
EXTENDS Integers, Sequences, FiniteSets, TLC

VARIABLES
    pc,                     \* position of the job (run() and insert_measurements)
    runs,                   \* number of runs / calls started so far
    batch_size,             \* cfg["pipeline"]["batch_size"]
    store,                  \* committed rows of consolidated_measurements, by key
    sensor_rows,            \* raw rows of fetch_last_24h
    production_rows,        \* raw rows of the production CSV
    weather_data,           \* payload of fetch_weather_open_meteo
    failed,                 \* sources whose extraction failed in this run
    transformed_sensor,     \* output of transform_sensor_rows
    transformed_production, \* output of transform_production_rows
    transformed_api,        \* output of transform_api_rows
    consolidated_records,   \* the batch after enforce_schema; quality_check mutates it
    anomalies_count,        \* second result of quality_check
    values_to_insert,       \* deduplicated batch inside insert_measurements
    txn,                    \* the table as seen inside the open transaction
    chunk_i,                \* loop variable i of the chunk loop
    inserted,               \* counter of insert_measurements
    status,                 \* summary['status']
    lignes_chargees,        \* summary['lignes_chargees']
    exit_code               \* process exit status, None while the job runs

vars == << pc, runs, batch_size, store, sensor_rows, production_rows, weather_data,
           failed, transformed_sensor, transformed_production, transformed_api,
           consolidated_records, anomalies_count, values_to_insert, txn, chunk_i,
           inserted, status, lignes_chargees, exit_code >>

----------------------------------------------------------------------------
(* Python values *)

None == [t |-> "None"]

NaN == [t |-> "nan"]

Num(n) == [t |-> "num", v |-> n]

Str(s) == [t |-> "str", s |-> s]

Bool(b) == [t |-> "bool", b |-> b]

\* a datetime object: wall-clock hour h, tz = None (naive) or Num(offset hours)
Dt(h, tz) == [t |-> "datetime", h |-> h, tz |-> tz]

\* a string dateutil can parse: wall-clock hour h, tz = None or Num(offset hours)
DateStr(h, tz) == [t |-> "datestr", h |-> h, tz |-> tz]

\* dict.get(k): the value, None when the key is missing
Get(r, k) == IF k \in DOMAIN r THEN r[k] ELSE None

\* the empty dict
EmptyDict == [k \in {} |-> None]

Scale == 100

----------------------------------------------------------------------------
(* transform.py: schema and conversions *)

FULL_SCHEMA_KEYS ==
    << "turbine_id", "date", "temperature_k", "wind_ms", "vibration_mm_s",
       "consumption_kwh", "energie_kwh", "arret_planifie", "arret_non_planifie",
       "source" >>

SchemaKeySet == { FULL_SCHEMA_KEYS[j] : j \in 1..Len(FULL_SCHEMA_KEYS) }

\* the columns the ON CONFLICT clause coalesces
MeasuredFields ==
    { "energie_kwh", "temperature_k", "wind_ms", "vibration_mm_s",
      "consumption_kwh", "arret_planifie", "arret_non_planifie" }

\* n / d rounded to the nearest integer, ties to even (round(x, 2) on hundredths)
RoundDiv(n, d) ==
    LET q == n \div d
        r == n % d
    IN  IF 2 * r < d THEN q
        ELSE IF 2 * r > d THEN q + 1
        ELSE IF q % 2 = 0 THEN q ELSE q + 1

\* float(s) for the string literals of the model; FloatStrings are the parseable ones
FloatStrings == { "0", "1", "1.0", "850", "-5" }

FloatOf(s) ==
    CASE s = "0"   -> 0
      [] s = "1"   -> 1 * Scale
      [] s = "1.0" -> 1 * Scale
      [] s = "850" -> 850 * Scale
      [] s = "-5"  -> (-5) * Scale
      [] OTHER     -> 0

\* str.strip()
Strip(s) == IF s \in { "", " " } THEN "" ELSE s

\* int(x): truncation toward zero, of a number in hundredths
TruncInt(n) == IF n >= 0 THEN n \div Scale ELSE -((-n) \div Scale)

KELVIN_OFFSET == 27315

celsius_to_kelvin(c) ==
    CASE c.t = "None" -> None
      [] c.t = "num"  -> Num(c.v + KELVIN_OFFSET)
      [] c.t = "nan"  -> NaN
      [] c.t = "str"  -> IF c.s \in FloatStrings
                         THEN Num(FloatOf(c.s) + KELVIN_OFFSET) ELSE None
      [] OTHER        -> None

\* round(float(k) / 3.6, 2): k / 3.6 in hundredths is 5k / 18
kmh_to_ms(k) ==
    CASE k.t = "None" -> None
      [] k.t = "num"  -> Num(RoundDiv(5 * k.v, 18))
      [] k.t = "nan"  -> NaN
      [] k.t = "str"  -> IF k.s \in FloatStrings
                         THEN Num(RoundDiv(5 * FloatOf(k.s), 18)) ELSE None
      [] OTHER        -> None

safe_bool_int(val) ==
    CASE val.t = "None" -> Bool(FALSE)                \* pd.isna(None)
      [] val.t = "nan"  -> Bool(FALSE)                \* pd.isna(nan)
      [] val.t = "num"  -> Bool(TruncInt(val.v) # 0)  \* bool(int(float(val)))
      [] val.t = "bool" -> Bool(val.b)
      [] val.t = "str"  -> IF val.s = "" THEN Bool(FALSE)
                           ELSE IF val.s \in FloatStrings
                                THEN Bool(TruncInt(FloatOf(val.s)) # 0)
                                ELSE Bool(FALSE)      \* except Exception
      [] OTHER          -> Bool(FALSE)

\* UTC offset of Europe/Paris in hours for the (winter) dates of the model
PARIS_OFFSET == 1

\* "if not date_obj": None and the empty string are falsy
parse_date(date_obj) ==
    CASE date_obj.t = "None" -> None
      [] date_obj.t = "datetime" ->
            IF date_obj.tz # None
            THEN Dt(date_obj.h - date_obj.tz.v, None)
            ELSE date_obj
      [] date_obj.t = "datestr" ->
            IF date_obj.tz = None
            THEN Dt(date_obj.h - PARIS_OFFSET, None)
            ELSE Dt(date_obj.h - date_obj.tz.v, None)
      [] OTHER -> None          \* "" is falsy; anything else fails to parse

----------------------------------------------------------------------------
(* transform.py: the three source adapters *)

SensorRecord(r) ==
    [ turbine_id         |-> Get(r, "turbine_id"),
      date               |-> Get(r, "date"),
      temperature_k      |-> Get(r, "temperature_k"),
      wind_ms            |-> Get(r, "wind_ms"),
      vibration_mm_s     |-> Get(r, "vibration_mm_s"),
      consumption_kwh    |-> Get(r, "consumption_kwh"),
      energie_kwh        |-> None,
      arret_planifie     |-> None,
      arret_non_planifie |-> None,
      source             |-> Str("db_sensor") ]

transform_sensor_rows(rows) == [ j \in 1..Len(rows) |-> SensorRecord(rows[j]) ]

\* str(x) for the id values of the model
PyStr(x) ==
    CASE x.t = "str"  -> x.s
      [] x.t = "None" -> "None"
      [] x.t = "nan"  -> "nan"
      [] OTHER        -> "?"

\* str.upper() for the id strings of the model
Upper(s) ==
    CASE s = "t001" -> "T001"
      [] s = "t002" -> "T002"
      [] s = "None" -> "NONE"
      [] s = "nan"  -> "NAN"
      [] OTHER      -> s

\* is "x is not None and str(x).strip() != ''"
EnergiePresent(x) == x # None /\ ~(x.t = "str" /\ Strip(x.s) = "")

\* float(x) raises ValueError on a non-numeric string
EnergieRaises(x) == EnergiePresent(x) /\ x.t = "str" /\ Strip(x.s) \notin FloatStrings

EnergieOf(x) ==
    IF ~EnergiePresent(x) THEN None
    ELSE CASE x.t = "num" -> x
           [] x.t = "nan" -> NaN
           [] x.t = "str" -> Num(FloatOf(Strip(x.s)))
           [] OTHER       -> None

ProductionRecord(r) ==
    [ turbine_id         |-> Str(Upper(PyStr(Get(r, "turbin_id")))),
      date               |-> parse_date(Get(r, "date")),
      temperature_k      |-> None,
      wind_ms            |-> None,
      vibration_mm_s     |-> None,
      consumption_kwh    |-> None,
      energie_kwh        |-> EnergieOf(Get(r, "energie_kWh")),
      arret_planifie     |-> safe_bool_int(Get(r, "arret_planifie")),
      arret_non_planifie |-> safe_bool_int(Get(r, "arret_non_planifie")),
      source             |-> Str("csv_production") ]

transform_production_rows(rows) ==
    [ j \in 1..Len(rows) |-> ProductionRecord(rows[j]) ]

\* the ValueError of float(...) leaves transform_production_rows uncaught
ProductionRaises(rows) ==
    \E j \in 1..Len(rows) : EnergieRaises(Get(rows[j], "energie_kWh"))

\* "not data or 'hourly' not in data or not turbine_ids"
ApiEmpty(data, turbine_ids) ==
    DOMAIN data = {} \/ "hourly" \notin DOMAIN data \/ Len(turbine_ids) = 0

\* KeyError / IndexError of hourly['time'], hourly['temperature_2m'][i],
\* hourly['windspeed_10m'][i]
ApiRaises(data, turbine_ids) ==
    IF ApiEmpty(data, turbine_ids) THEN FALSE
    ELSE LET hourly == data.hourly IN
         IF "time" \notin DOMAIN hourly THEN TRUE
         ELSE IF Len(hourly.time) = 0 THEN FALSE
         ELSE IF "temperature_2m" \notin DOMAIN hourly THEN TRUE
         ELSE IF "windspeed_10m" \notin DOMAIN hourly THEN TRUE
         ELSE \/ Len(hourly.temperature_2m) < Len(hourly.time)
              \/ Len(hourly.windspeed_10m) < Len(hourly.time)

ApiRecord(hourly, i, tid, source_name) ==
    [ turbine_id         |-> tid,
      date               |-> parse_date(hourly.time[i]),
      temperature_k      |-> celsius_to_kelvin(hourly.temperature_2m[i]),
      wind_ms            |-> kmh_to_ms(hourly.windspeed_10m[i]),
      vibration_mm_s     |-> None,
      consumption_kwh    |-> None,
      energie_kwh        |-> None,
      arret_planifie     |-> None,
      arret_non_planifie |-> None,
      source             |-> Str(source_name) ]

\* mutant: the inner loop stops after the first turbine
transform_api_rows_first_turbine(data, turbine_ids, source_name) ==
    IF ApiEmpty(data, turbine_ids) THEN << >>
    ELSE [ j \in 1..Len(data.hourly.time) |->
             ApiRecord(data.hourly, j, turbine_ids[1], source_name) ]

\* for each hour i, for each tid of turbine_ids: one record
transform_api_rows(data, turbine_ids, source_name) ==
    IF ApiEmpty(data, turbine_ids) THEN << >>
    ELSE LET hourly == data.hourly
             m == Len(turbine_ids)
         IN  [ j \in 1..(Len(hourly.time) * m) |->
                 ApiRecord(hourly, ((j - 1) \div m) + 1,
                           turbine_ids[((j - 1) % m) + 1], source_name) ]

\* set(r['turbine_id'] for r in transformed_sensor + transformed_production)
ActiveTurbines(ts, tp) ==
    { ts[j].turbine_id : j \in 1..Len(ts) } \cup { tp[j].turbine_id : j \in 1..Len(tp) }

\* list(a_set): every iteration order of the set
ListsOf(S) ==
    { q \in [ 1..Cardinality(S) -> S ] : \A a \in S : \E j \in DOMAIN q : q[j] = a }

----------------------------------------------------------------------------
(* transform.py: schema and quality *)

\* mutant: r.setdefault(k, None) on a copy of r, the keys of r are all kept
EnforceRecord_setdefault(r) == [ k \in DOMAIN r \cup SchemaKeySet |-> Get(r, k) ]

\* {k: r.get(k, None) for k in FULL_SCHEMA_KEYS}
EnforceRecord(r) == [ k \in SchemaKeySet |-> Get(r, k) ]

\* the items of that dict in the order the comprehension inserts them
EnforceItems(r) ==
    [ i \in 1..Len(FULL_SCHEMA_KEYS) |->
        [ key |-> FULL_SCHEMA_KEYS[i], value |-> Get(r, FULL_SCHEMA_KEYS[i]) ] ]

enforce_schema(records) == [ j \in 1..Len(records) |-> EnforceRecord(records[j]) ]

\* Python comparison of a float, int or Decimal with a bound; False for NaN
Lt(x, bound) == x.t = "num" /\ x.v < bound

Gt(x, bound) == x.t = "num" /\ x.v > bound

WIND_MAX == 42 * Scale

TEMP_MIN == 200 * Scale

TEMP_MAX == 330 * Scale

VIBRATION_MAX == 25 * Scale

\* mutant: the bounds themselves are rejected (<= and >= for < and >)
OutOfRange_inclusive(r, f) ==
    LET x == Get(r, f) IN
    /\ x # None
    /\ x.t = "num"
    /\ CASE f = "wind_ms"         -> x.v <= 0 \/ x.v >= WIND_MAX
         [] f = "temperature_k"   -> x.v <= TEMP_MIN \/ x.v >= TEMP_MAX
         [] f = "vibration_mm_s"  -> x.v <= 0 \/ x.v >= VIBRATION_MAX
         [] f = "energie_kwh"     -> x.v <= 0
         [] f = "consumption_kwh" -> x.v <= 0
         [] OTHER                 -> FALSE

\* the condition under which quality_check nulls field f of record r
OutOfRange(r, f) ==
    LET x == Get(r, f) IN
    /\ x # None
    /\ CASE f = "wind_ms"         -> Lt(x, 0) \/ Gt(x, WIND_MAX)
         [] f = "temperature_k"   -> Lt(x, TEMP_MIN) \/ Gt(x, TEMP_MAX)
         [] f = "vibration_mm_s"  -> Lt(x, 0) \/ Gt(x, VIBRATION_MAX)
         [] f = "energie_kwh"     -> Lt(x, 0)
         [] f = "consumption_kwh" -> Lt(x, 0)
         [] OTHER                 -> FALSE

CheckedFields ==
    { "wind_ms", "temperature_k", "vibration_mm_s", "energie_kwh", "consumption_kwh" }

\* r after the five filters: r[f] = None is an assignment, other keys are kept
QualityRecord(r) ==
    [ k \in DOMAIN r |->
        IF k \in CheckedFields /\ OutOfRange(r, k) THEN None ELSE r[k] ]

RecordAnomalies(r) == Cardinality({ f \in CheckedFields : OutOfRange(r, f) })

RECURSIVE SumAnomalies(_)
SumAnomalies(records) ==
    IF Len(records) = 0 THEN 0
    ELSE RecordAnomalies(records[1]) + SumAnomalies(Tail(records))

NoAnomaly(r) == RecordAnomalies(r) = 0

\* mutant: a record with an offending field is rejected wholesale
quality_check_drop(records) ==
    [ records   |-> SelectSeq(records, NoAnomaly),
      anomalies |-> SumAnomalies(records) ]

\* quality_check returns (records, anomalies)
quality_check(records) ==
    [ records   |-> [ j \in 1..Len(records) |-> QualityRecord(records[j]) ],
      anomalies |-> SumAnomalies(records) ]

----------------------------------------------------------------------------
(* load.py *)

\* key = (row.get('turbine_id'), row.get('date'))
KeyOf(row) == << Get(row, "turbine_id"), Get(row, "date") >>

\* mutant: the first record seen for a key is kept
DictPut_keep_first(items, key, row) ==
    IF \E j \in 1..Len(items) : items[j].key = key
    THEN items
    ELSE Append(items, [ key |-> key, row |-> row ])

\* mutant: a list instead of a dict, every record is kept
DictPut_append(items, key, row) == Append(items, [ key |-> key, row |-> row ])

\* unique_records[key] = row, on a dict kept as the sequence of its items in
\* insertion order: an existing key keeps its position and takes the new row
DictPut(items, key, row) ==
    IF \E j \in 1..Len(items) : items[j].key = key
    THEN [ j \in 1..Len(items) |->
             IF items[j].key = key THEN [ key |-> key, row |-> row ] ELSE items[j] ]
    ELSE Append(items, [ key |-> key, row |-> row ])

RECURSIVE DedupLoop(_, _)
DedupLoop(items, rows) ==
    IF Len(rows) = 0 THEN items
    ELSE DedupLoop(DictPut(items, KeyOf(rows[1]), rows[1]), Tail(rows))

\* list(unique_records.values())
deduplicate_and_merge_records(rows) ==
    LET items == DedupLoop(<< >>, rows)
    IN  [ j \in 1..Len(items) |-> items[j].row ]

\* mutant: SET col = EXCLUDED.col
COALESCE_incoming(a, b) == a

\* SQL COALESCE(a, b)
COALESCE(a, b) == IF a # None THEN a ELSE b

\* mutant: the SET list without "source = EXCLUDED.source"
ConflictUpdate_keep_source(stored, excluded) ==
    [ k \in DOMAIN stored |->
        IF k \in MeasuredFields
        THEN (IF Get(excluded, k) # None THEN Get(excluded, k) ELSE stored[k])
        ELSE stored[k] ]

\* mutant: SET energie_kwh = stored.energie_kwh + EXCLUDED.energie_kwh
ConflictUpdate_accumulate(stored, excluded) ==
    [ k \in DOMAIN stored |->
        IF k = "energie_kwh" /\ Get(excluded, k).t = "num" /\ stored[k].t = "num"
        THEN Num(stored[k].v + Get(excluded, k).v)
        ELSE IF k \in MeasuredFields
        THEN (IF Get(excluded, k) # None THEN Get(excluded, k) ELSE stored[k])
        ELSE IF k = "source" THEN Get(excluded, "source")
        ELSE stored[k] ]

\* the DO UPDATE SET list: seven coalesced columns, source = EXCLUDED.source
ConflictUpdate(stored, excluded) ==
    [ k \in DOMAIN stored |->
        IF k \in MeasuredFields THEN COALESCE(Get(excluded, k), stored[k])
        ELSE IF k = "source" THEN Get(excluded, "source")
        ELSE stored[k] ]

\* mutant: delete-then-insert, the stored row is replaced by the incoming one
Upsert_replace(table, rec) ==
    [ k \in DOMAIN table \cup { << Get(rec, "turbine_id"), Get(rec, "date") >> } |->
        IF k = << Get(rec, "turbine_id"), Get(rec, "date") >> THEN rec ELSE table[k] ]

\* INSERT ... ON CONFLICT (turbine_id, date) DO UPDATE for one row
Upsert(table, rec) ==
    LET key == KeyOf(rec) IN
    IF key \in DOMAIN table
    THEN [ table EXCEPT ![key] = ConflictUpdate(table[key], rec) ]
    ELSE [ k \in DOMAIN table \cup { key } |-> IF k = key THEN rec ELSE table[k] ]

\* execute_values(cur, sql, batch)
RECURSIVE ExecuteValues(_, _)
ExecuteValues(table, batch) ==
    IF Len(batch) = 0 THEN table
    ELSE ExecuteValues(Upsert(table, batch[1]), Tail(batch))

Min(a, b) == IF a < b THEN a ELSE b

\* values[i:i+batch_size], i counted from 0
ChunkAt(values, i, size) == SubSeq(values, i + 1, Min(i + size, Len(values)))

EmptyTable == [ k \in {} |-> None ]

\* for i in range(0, len(values), batch_size): execute_values(cur, sql, batch)
RECURSIVE ChunkLoop(_, _, _, _)
ChunkLoop(table, values, i, size) ==
    IF i >= Len(values) THEN table
    ELSE ChunkLoop(ExecuteValues(table, ChunkAt(values, i, size)), values, i + size, size)

\* the table after a call of insert_measurements that commits
insert_measurements(table, rows, size) ==
    LET values == deduplicate_and_merge_records(rows)
    IN  IF Len(values) = 0 THEN table ELSE ChunkLoop(table, values, 0, size)

----------------------------------------------------------------------------
(* Inputs of the model *)

MaxRuns == 2

MaxRows == 1

SeqsUpTo(S, n) == UNION { [ 1..m -> S ] : m \in 0..n }

\* rows of raw_measurements as the query of fetch_last_24h names their columns
SensorSamples ==
    { [ turbine_id |-> Str("T001"), date |-> Dt(10, None), wind_ms |-> Num(1230),
        temperature_k |-> None, vibration_mm_s |-> None, consumption_kwh |-> None ],
      [ turbine_id |-> Str("T001"), date |-> Dt(10, None), wind_ms |-> Num(4300),
        temperature_k |-> Num(28500), vibration_mm_s |-> Num(0),
        consumption_kwh |-> Num(-100) ] }

\* rows of the production CSV (strings, or what pandas makes of a column)
ProductionSamples ==
    { [ date |-> DateStr(11, None), turbin_id |-> Str("t001"),
        energie_kWh |-> Str("850"), arret_planifie |-> Str("1"),
        arret_non_planifie |-> Str("") ],
      [ date |-> DateStr(11, None), turbin_id |-> Str("T001"),
        energie_kWh |-> Str("0"), arret_planifie |-> Str(""),
        arret_non_planifie |-> Str("1") ],
      [ date |-> DateStr(11, None), turbin_id |-> Str("T002"),
        energie_kWh |-> NaN, arret_planifie |-> NaN,
        arret_non_planifie |-> Num(100) ] }

\* payloads of the weather service
WeatherSamples ==
    { [ hourly |-> [ time |-> << DateStr(11, None) >>,
                     temperature_2m |-> << Num(695) >>,
                     windspeed_10m |-> << None >> ] ],
      [ hourly |-> [ time |-> << DateStr(11, None) >>,
                     temperature_2m |-> << Num(6000) >>,
                     windspeed_10m |-> << Num(360) >> ] ],
      [ hourly |-> [ time |-> << DateStr(11, None) >>,
                     temperature_2m |-> << Num(695) >>,
                     wind_speed_10m |-> << Num(360) >> ] ] }

BatchSizes == { 1, 2 }

----------------------------------------------------------------------------
(* main_pipeline.py: run() *)

ResetRun ==
    /\ sensor_rows' = << >>
    /\ production_rows' = << >>
    /\ weather_data' = EmptyDict
    /\ failed' = {}
    /\ transformed_sensor' = << >>
    /\ transformed_production' = << >>
    /\ transformed_api' = << >>
    /\ consolidated_records' = << >>
    /\ anomalies_count' = 0
    /\ values_to_insert' = << >>
    /\ txn' = store
    /\ chunk_i' = 0
    /\ inserted' = 0
    /\ lignes_chargees' = 0

Init ==
    /\ pc = "idle"
    /\ runs = 0
    /\ batch_size \in BatchSizes
    /\ store = EmptyTable
    /\ sensor_rows = << >>
    /\ production_rows = << >>
    /\ weather_data = EmptyDict
    /\ failed = {}
    /\ transformed_sensor = << >>
    /\ transformed_production = << >>
    /\ transformed_api = << >>
    /\ consolidated_records = << >>
    /\ anomalies_count = 0
    /\ values_to_insert = << >>
    /\ txn = EmptyTable
    /\ chunk_i = 0
    /\ inserted = 0
    /\ status = "NONE"
    /\ lignes_chargees = 0
    /\ exit_code = None

\* the job is started; load_config and setup_logging succeed
StartRun ==
    /\ pc \in { "idle", "exited" }
    /\ runs < MaxRuns
    /\ runs' = runs + 1
    /\ pc' = "extract_db"
    /\ status' = "RUNNING"
    /\ exit_code' = None
    /\ ResetRun
    /\ UNCHANGED << batch_size, store >>

\* load_config raises: run() prints the error and calls sys.exit(1)
ConfigFail ==
    /\ pc \in { "idle", "exited" }
    /\ runs < MaxRuns
    /\ runs' = runs + 1
    /\ pc' = "exited"
    /\ status' = "NONE"
    /\ exit_code' = Num(1)
    /\ ResetRun
    /\ UNCHANGED << batch_size, store >>

RunFrame ==
    UNCHANGED << runs, batch_size, store, values_to_insert, txn, chunk_i, inserted,
                 status, lignes_chargees, exit_code >>

\* 2.1: fetch_last_24h returns rows
ExtractDb ==
    /\ pc = "extract_db"
    /\ \E rows \in SeqsUpTo(SensorSamples, MaxRows) : sensor_rows' = rows
    /\ pc' = "extract_csv"
    /\ UNCHANGED << production_rows, weather_data, failed, transformed_sensor,
                    transformed_production, transformed_api, consolidated_records,
                    anomalies_count >>
    /\ RunFrame

\* 2.1: the query fails (fetch_last_24h returns []) or the call raises
ExtractDbFail ==
    /\ pc = "extract_db"
    /\ sensor_rows' = << >>
    /\ failed' = failed \cup { "db_sensor" }
    /\ pc' = "extract_csv"
    /\ UNCHANGED << production_rows, weather_data, transformed_sensor,
                    transformed_production, transformed_api, consolidated_records,
                    anomalies_count >>
    /\ RunFrame

\* 2.2: find_latest_csv, read_production_csv, to_dict('records')
ExtractCsv ==
    /\ pc = "extract_csv"
    /\ \E rows \in SeqsUpTo(ProductionSamples, MaxRows) : production_rows' = rows
    /\ pc' = "extract_api"
    /\ UNCHANGED << sensor_rows, weather_data, failed, transformed_sensor,
                    transformed_production, transformed_api, consolidated_records,
                    anomalies_count >>
    /\ RunFrame

\* mutant: step 2.2 without its try/except, the error leaves run()
ExtractCsvFail_abort ==
    /\ pc = "extract_csv"
    /\ production_rows' = << >>
    /\ failed' = failed \cup { "csv_production" }
    /\ pc' = "exited"
    /\ exit_code' = Num(1)
    /\ UNCHANGED << runs, batch_size, store, sensor_rows, weather_data,
                    transformed_sensor, transformed_production, transformed_api,
                    consolidated_records, anomalies_count, values_to_insert, txn,
                    chunk_i, inserted, status, lignes_chargees >>

\* 2.2: no file (find_latest_csv returns the FileNotFoundError and read_csv
\* raises on it) or an unreadable file: the except branch
ExtractCsvFail ==
    /\ pc = "extract_csv"
    /\ production_rows' = << >>
    /\ failed' = failed \cup { "csv_production" }
    /\ pc' = "extract_api"
    /\ UNCHANGED << sensor_rows, weather_data, transformed_sensor,
                    transformed_production, transformed_api, consolidated_records,
                    anomalies_count >>
    /\ RunFrame

\* 2.3: fetch_weather_open_meteo returns the payload
ExtractApi ==
    /\ pc = "extract_api"
    /\ \E data \in WeatherSamples : weather_data' = data
    /\ pc' = "transform"
    /\ UNCHANGED << sensor_rows, production_rows, failed, transformed_sensor,
                    transformed_production, transformed_api, consolidated_records,
                    anomalies_count >>
    /\ RunFrame

\* 2.3: fetch_weather_open_meteo raises: the except branch
ExtractApiFail ==
    /\ pc = "extract_api"
    /\ weather_data' = EmptyDict
    /\ failed' = failed \cup { "api_weather" }
    /\ pc' = "transform"
    /\ UNCHANGED << sensor_rows, production_rows, transformed_sensor,
                    transformed_production, transformed_api, consolidated_records,
                    anomalies_count >>
    /\ RunFrame

\* 3.1 and 3.2 up to enforce_schema
Transform ==
    /\ pc = "transform"
    /\ ~ProductionRaises(production_rows)
    /\ LET ts == transform_sensor_rows(sensor_rows)
           tp == transform_production_rows(production_rows)
       IN  \E ids \in ListsOf(ActiveTurbines(ts, tp)) :
             /\ ~ApiRaises(weather_data, ids)
             /\ transformed_sensor' = ts
             /\ transformed_production' = tp
             /\ transformed_api' = transform_api_rows(weather_data, ids, "api_weather")
             /\ consolidated_records' = enforce_schema(ts \o tp \o transformed_api')
    /\ pc' = "quality"
    /\ UNCHANGED << sensor_rows, production_rows, weather_data, failed, anomalies_count >>
    /\ RunFrame

\* an adapter raises: nothing in run() catches it, the entry point exits 1
TransformRaise ==
    /\ pc = "transform"
    /\ \/ ProductionRaises(production_rows)
       \/ \E ids \in ListsOf(ActiveTurbines(transform_sensor_rows(sensor_rows),
                                            transform_production_rows(production_rows))) :
             ApiRaises(weather_data, ids)
    /\ pc' = "exited"
    /\ exit_code' = Num(1)
    /\ UNCHANGED << runs, batch_size, store, sensor_rows, production_rows, weather_data,
                    failed, transformed_sensor, transformed_production, transformed_api,
                    consolidated_records, anomalies_count, values_to_insert, txn,
                    chunk_i, inserted, status, lignes_chargees >>

\* cleaned_records, anomalies_count = quality_check(consolidated_records)
QualityCheck ==
    /\ pc = "quality"
    /\ consolidated_records' = quality_check(consolidated_records).records
    /\ anomalies_count' = quality_check(consolidated_records).anomalies
    /\ pc' = "load"
    /\ UNCHANGED << sensor_rows, production_rows, weather_data, failed,
                    transformed_sensor, transformed_production, transformed_api >>
    /\ RunFrame

----------------------------------------------------------------------------
(* load.py: insert_measurements, called at step 4 of run() *)

LoadFrame ==
    UNCHANGED << runs, batch_size, sensor_rows, production_rows, weather_data, failed,
                 transformed_sensor, transformed_production, transformed_api,
                 consolidated_records, anomalies_count, exit_code >>

\* deduplication; an empty batch returns 0, otherwise the connection is opened
InsertBegin ==
    /\ pc = "load"
    /\ values_to_insert' = deduplicate_and_merge_records(consolidated_records)
    /\ IF Len(values_to_insert') = 0
       THEN /\ pc' = "report"
            /\ status' = "COMPLETED_SUCCESS"
            /\ lignes_chargees' = 0
            /\ UNCHANGED << txn, chunk_i, inserted >>
       ELSE /\ pc' = "chunks"
            /\ txn' = store
            /\ chunk_i' = 0
            /\ inserted' = 0
            /\ UNCHANGED << status, lignes_chargees >>
    /\ UNCHANGED store
    /\ LoadFrame

\* mutant: the connection is in autocommit mode, each chunk is persisted at once
ExecuteChunk_autocommit ==
    /\ pc = "chunks"
    /\ chunk_i < Len(values_to_insert)
    /\ LET batch == ChunkAt(values_to_insert, chunk_i, batch_size) IN
         /\ txn' = ExecuteValues(txn, batch)
         /\ inserted' = inserted + Len(batch)
    /\ store' = txn'
    /\ chunk_i' = chunk_i + batch_size
    /\ UNCHANGED << pc, values_to_insert, status, lignes_chargees >>
    /\ LoadFrame

\* one turn of the chunk loop
ExecuteChunk ==
    /\ pc = "chunks"
    /\ chunk_i < Len(values_to_insert)
    /\ LET batch == ChunkAt(values_to_insert, chunk_i, batch_size) IN
         /\ txn' = ExecuteValues(txn, batch)
         /\ inserted' = inserted + Len(batch)
    /\ chunk_i' = chunk_i + batch_size
    /\ UNCHANGED << pc, store, values_to_insert, status, lignes_chargees >>
    /\ LoadFrame

\* mutant: the except branch of insert_measurements returns the counter
\* instead of re-raising, run() records a success
StorageFail_swallow ==
    /\ pc = "chunks"
    /\ txn' = store
    /\ status' = "COMPLETED_SUCCESS"
    /\ lignes_chargees' = inserted
    /\ pc' = "report"
    /\ UNCHANGED << store, values_to_insert, chunk_i, inserted >>
    /\ LoadFrame

\* psycopg2.Error on connect, in a chunk or on commit: the with block rolls
\* back, insert_measurements re-raises, run() records the failure
StorageFail ==
    /\ pc = "chunks"
    /\ txn' = store
    /\ status' = "COMPLETED_FAILURE"
    /\ pc' = "report"
    /\ UNCHANGED << store, values_to_insert, chunk_i, inserted, lignes_chargees >>
    /\ LoadFrame

\* the loop is over: the with block commits, insert_measurements returns inserted
Commit ==
    /\ pc = "chunks"
    /\ chunk_i >= Len(values_to_insert)
    /\ store' = txn
    /\ status' = "COMPLETED_SUCCESS"
    /\ lignes_chargees' = inserted
    /\ pc' = "report"
    /\ UNCHANGED << values_to_insert, txn, chunk_i, inserted >>
    /\ LoadFrame

\* the finally block: the summary is printed; run() returns and the process
\* ends with status 0
Report ==
    /\ pc = "report"
    /\ pc' = "exited"
    /\ exit_code' = Num(0)
    /\ UNCHANGED << runs, batch_size, store, sensor_rows, production_rows, weather_data,
                    failed, transformed_sensor, transformed_production, transformed_api,
                    consolidated_records, anomalies_count, values_to_insert, txn,
                    chunk_i, inserted, status, lignes_chargees >>

Next ==
    \/ StartRun
    \/ ConfigFail
    \/ ExtractDb
    \/ ExtractDbFail
    \/ ExtractCsv
    \/ ExtractCsvFail
    \/ ExtractApi
    \/ ExtractApiFail
    \/ Transform
    \/ TransformRaise
    \/ QualityCheck
    \/ InsertBegin
    \/ ExecuteChunk
    \/ StorageFail
    \/ Commit
    \/ Report

Spec == Init /\ [][Next]_vars

----------------------------------------------------------------------------
(* insert_measurements called with arbitrary batches *)

MaxCalls == 2

MaxBatch == 2

\* a canonical record with the ten columns
Rec(tid, h, temp, wind, vib, cons, en, ap, anp, src) ==
    [ turbine_id         |-> Str(tid),
      date               |-> Dt(h, None),
      temperature_k      |-> temp,
      wind_ms            |-> wind,
      vibration_mm_s     |-> vib,
      consumption_kwh    |-> cons,
      energie_kwh        |-> en,
      arret_planifie     |-> ap,
      arret_non_planifie |-> anp,
      source             |-> Str(src) ]

LoadSamples ==
    { Rec("T001", 10, None, Num(500), Num(300), None, None, None, None, "db_sensor"),
      Rec("T001", 10, Num(28010), Num(720), None, None, None, None, None, "api_weather"),
      Rec("T001", 10, None, None, None, None, None, None, None, "api_weather"),
      Rec("T001", 10, None, None, None, None, Num(0), Bool(TRUE), Bool(FALSE),
          "csv_production"),
      Rec("T002", 10, None, Num(1230), None, Num(0), None, None, None, "db_sensor"),
      Rec("T002", 10, None, None, None, None, Num(85000), Bool(FALSE), Bool(TRUE),
          "csv_production") }

InitLoad == Init

\* a caller hands rows to insert_measurements (batch_size is the configured one)
CallInsert ==
    /\ pc = "idle"
    /\ runs < MaxCalls
    /\ runs' = runs + 1
    /\ \E rows \in SeqsUpTo(LoadSamples, MaxBatch) : consolidated_records' = rows
    /\ pc' = "load"
    /\ status' = "RUNNING"
    /\ values_to_insert' = << >>
    /\ chunk_i' = 0
    /\ inserted' = 0
    /\ lignes_chargees' = 0
    /\ UNCHANGED << batch_size, store, txn, sensor_rows, production_rows,
                    weather_data, failed, transformed_sensor, transformed_production,
                    transformed_api, anomalies_count, exit_code >>

\* insert_measurements has returned or raised; the caller goes on
CallReturn ==
    /\ pc = "report"
    /\ pc' = "idle"
    /\ UNCHANGED << runs, batch_size, store, sensor_rows, production_rows, weather_data,
                    failed, transformed_sensor, transformed_production, transformed_api,
                    consolidated_records, anomalies_count, values_to_insert, txn,
                    chunk_i, inserted, status, lignes_chargees, exit_code >>

NextLoad ==
    \/ CallInsert
    \/ InsertBegin
    \/ ExecuteChunk
    \/ StorageFail
    \/ Commit
    \/ CallReturn

SpecLoad == InitLoad /\ [][NextLoad]_vars

----------------------------------------------------------------------------
(* quality_check on arbitrary batches, followed by the write *)

MaxQBatch == 2

QualitySamples ==
    { Rec("T001", 10, None, None, None, None, None, None, None, "db_sensor"),
      Rec("T001", 10, Num(19999), Num(-1), Num(-1), Num(-1), Num(-1), Bool(TRUE),
          Bool(FALSE), "csv_production"),
      Rec("T001", 10, Num(20000), Num(0), Num(0), Num(0), Num(0), Bool(FALSE),
          Bool(TRUE), "csv_production"),
      Rec("T002", 10, Num(33000), Num(4200), Num(2500), Num(500), Num(85000), None,
          None, "db_sensor"),
      Rec("T002", 10, Num(33001), Num(4201), Num(2501), Num(0), Num(0), None, None,
          "api_weather"),
      Rec("T001", 11, Num(28010), Num(4201), Num(300), None, None, None, None,
          "api_weather"),
      Rec("T001", 11, Num(33001), Num(1230), Num(300), Num(-1), None, Bool(TRUE),
          Bool(TRUE), "db_sensor"),
      Rec("T002", 11, Num(28010), Num(1230), Num(2501), None, Num(-1), None, None,
          "db_sensor"),
      Rec("T002", 11, NaN, NaN, NaN, NaN, NaN, None, None, "csv_production") }

\* run() has transformed some records and enforced the schema
InitQuality ==
    /\ pc = "quality"
    /\ runs = 1
    /\ batch_size \in BatchSizes
    /\ store = EmptyTable
    /\ sensor_rows = << >>
    /\ production_rows = << >>
    /\ weather_data = EmptyDict
    /\ failed = {}
    /\ transformed_sensor \in SeqsUpTo(QualitySamples, MaxQBatch)
    /\ transformed_production = << >>
    /\ transformed_api = << >>
    /\ consolidated_records = enforce_schema(transformed_sensor)
    /\ anomalies_count = 0
    /\ values_to_insert = << >>
    /\ txn = EmptyTable
    /\ chunk_i = 0
    /\ inserted = 0
    /\ status = "RUNNING"
    /\ lignes_chargees = 0
    /\ exit_code = None

NextQuality ==
    \/ QualityCheck
    \/ InsertBegin
    \/ ExecuteChunk
    \/ StorageFail
    \/ Commit
    \/ Report

SpecQuality == InitQuality /\ [][NextQuality]_vars

----------------------------------------------------------------------------
(* The transformation step of run() on arbitrary extracted rows *)

MaxARows == 1

AdaptSensorSamples ==
    SensorSamples \cup
    { [ turbine_id |-> Str("T002"), date |-> Dt(10, None), wind_ms |-> Num(0),
        temperature_k |-> Num(28010), vibration_mm_s |-> None,
        consumption_kwh |-> None ],
      [ turbine_id |-> Str("t001"), date |-> Dt(10, None), wind_ms |-> Num(1230),
        temperature_k |-> None, vibration_mm_s |-> None,
        consumption_kwh |-> None ] }

\* CSV rows with a non-numeric energy, with the id under turbine_id, with an
\* unparseable date and non-numeric flags, with both flags set, without an id
AdaptProductionSamples ==
    ProductionSamples \cup
    { [ date |-> DateStr(11, None), turbin_id |-> Str("T002"),
        energie_kWh |-> Str("abc"), arret_planifie |-> Str("0"),
        arret_non_planifie |-> Str("0") ],
      [ date |-> DateStr(11, None), turbine_id |-> Str("t002"),
        energie_kWh |-> Str("850"), arret_planifie |-> Str("1.0"),
        arret_non_planifie |-> Str("oui") ],
      [ date |-> Str("hier"), turbin_id |-> Str("t002"),
        energie_kWh |-> Str(" "), arret_planifie |-> Str("oui"),
        arret_non_planifie |-> None ],
      [ date |-> DateStr(11, None), turbin_id |-> Str("T001"),
        energie_kWh |-> Str("850"), arret_planifie |-> Str("1"),
        arret_non_planifie |-> Str("1") ],
      [ date |-> DateStr(11, None), energie_kWh |-> Str("850"),
        arret_planifie |-> Str("0"), arret_non_planifie |-> Str("0") ] }

\* payloads with two hours and non-numeric samples, and a body without hourly
AdaptWeatherSamples ==
    WeatherSamples \cup
    { [ hourly |-> [ time |-> << DateStr(11, None), DateStr(12, None) >>,
                     temperature_2m |-> << Str("abc"), Num(0) >>,
                     windspeed_10m |-> << Num(360), Str("n/a") >> ] ],
      [ error |-> Bool(TRUE) ] }

\* run() has finished the three extractions
InitAdapt ==
    /\ pc = "transform"
    /\ runs = 1
    /\ batch_size \in BatchSizes
    /\ store = EmptyTable
    /\ sensor_rows \in SeqsUpTo(AdaptSensorSamples, MaxARows)
    /\ production_rows \in SeqsUpTo(AdaptProductionSamples, MaxARows)
    /\ weather_data \in AdaptWeatherSamples \cup { EmptyDict }
    /\ failed = {}
    /\ transformed_sensor = << >>
    /\ transformed_production = << >>
    /\ transformed_api = << >>
    /\ consolidated_records = << >>
    /\ anomalies_count = 0
    /\ values_to_insert = << >>
    /\ txn = EmptyTable
    /\ chunk_i = 0
    /\ inserted = 0
    /\ status = "RUNNING"
    /\ lignes_chargees = 0
    /\ exit_code = None

NextAdapt ==
    \/ Transform
    \/ TransformRaise

SpecAdapt == InitAdapt /\ [][NextAdapt]_vars

\* the same run carried on through quality_check, the write and the summary
NextRun ==
    \/ Transform
    \/ TransformRaise
    \/ QualityCheck
    \/ InsertBegin
    \/ ExecuteChunk
    \/ StorageFail
    \/ Commit
    \/ Report

SpecRun == InitAdapt /\ [][NextRun]_vars

----------------------------------------------------------------------------
(* enforce_schema on records with any subset of the fields *)

MaxSBatch == 2

\* records with missing keys, with keys that are not columns, with None values
SchemaSamples ==
    { EmptyDict,
      [ turbine_id |-> Str("T001"), wind_ms |-> Num(1230) ],
      [ turbine_id |-> Str("T001"), date |-> Dt(10, None), source |-> Str("db_sensor"),
        humidity |-> Num(5000) ],
      [ date |-> Dt(10, None), energie_kwh |-> Num(0), arret_planifie |-> Bool(FALSE),
        pressure |-> None ],
      [ wind_ms |-> None, temperature_k |-> NaN ],
      Rec("T002", 11, Num(28010), Num(720), Num(300), Num(500), Num(85000),
          Bool(TRUE), Bool(FALSE), "csv_production") }

\* run() has concatenated the transformed lists
InitSchema ==
    /\ pc = "enforce"
    /\ runs = 1
    /\ batch_size \in BatchSizes
    /\ store = EmptyTable
    /\ sensor_rows = << >>
    /\ production_rows = << >>
    /\ weather_data = EmptyDict
    /\ failed = {}
    /\ transformed_sensor \in SeqsUpTo(SchemaSamples, MaxSBatch)
    /\ transformed_production = << >>
    /\ transformed_api = << >>
    /\ consolidated_records = transformed_sensor
    /\ anomalies_count = 0
    /\ values_to_insert = << >>
    /\ txn = EmptyTable
    /\ chunk_i = 0
    /\ inserted = 0
    /\ status = "RUNNING"
    /\ lignes_chargees = 0
    /\ exit_code = None

\* consolidated_records = enforce_schema(consolidated_records)
EnforceSchema ==
    /\ pc = "enforce"
    /\ consolidated_records' = enforce_schema(consolidated_records)
    /\ pc' = "quality"
    /\ UNCHANGED << sensor_rows, production_rows, weather_data, failed,
                    transformed_sensor, transformed_production, transformed_api,
                    anomalies_count >>
    /\ RunFrame

NextSchema ==
    \/ EnforceSchema
    \/ QualityCheck

SpecSchema == InitSchema /\ [][NextSchema]_vars

----------------------------------------------------------------------------
(* Properties of the merge-upsert (SpecLoad) *)

\* the records of values_to_insert that the chunk loop has already submitted
Applied == 1..Min(chunk_i, Len(values_to_insert))

\* C1: inside a call of insert_measurements, every record already upserted
\* onto a key that had a stored row leaves each measured field equal to the
\* incoming value when that is not absent and to the previously stored value
\* when it is absent; a record whose key had no row is inserted as it is.
C1_UpsertCoalesces ==
    pc = "chunks" =>
        \A j \in Applied :
            LET rec == values_to_insert[j]
                key == << rec.turbine_id, rec.date >>
            IN  /\ key \in DOMAIN txn
                /\ IF key \in DOMAIN store
                   THEN \A f \in MeasuredFields :
                            /\ rec[f] # None => txn[key][f] = rec[f]
                            /\ rec[f] = None => txn[key][f] = store[key][f]
                   ELSE txn[key] = rec

\* C1 witness: a stored wind of 5.0 is replaced by an incoming 7.2 while an
\* absent incoming vibration leaves the stored 3.0
C1_Witness ==
    /\ pc = "chunks"
    /\ \E j \in Applied :
         LET rec == values_to_insert[j]
             key == << rec.turbine_id, rec.date >>
         IN  /\ key \in DOMAIN store
             /\ store[key].wind_ms = Num(500)
             /\ rec.wind_ms = Num(720)
             /\ txn[key].wind_ms = Num(720)
             /\ store[key].vibration_mm_s = Num(300)
             /\ rec.vibration_mm_s = None
             /\ txn[key].vibration_mm_s = Num(300)

\* C2: no step of any sequence of insert_measurements calls removes a stored
\* row or turns a present measured field of a stored row into absent.
C2_PresentStaysPresent ==
    [][ \A k \in DOMAIN store :
          /\ k \in DOMAIN store'
          /\ \A f \in MeasuredFields : store[k][f] # None => store'[k][f] # None ]_vars

\* C2 witness: a call has committed a record with an absent field onto a row
\* that holds a value for that field
C2_Witness ==
    /\ pc = "report"
    /\ status = "COMPLETED_SUCCESS"
    /\ \E j \in 1..Len(values_to_insert) : \E f \in MeasuredFields :
         /\ values_to_insert[j][f] = None
         /\ store[KeyOf(values_to_insert[j])][f] # None

\* a step that commits the transaction of a call
CommitStep == pc = "chunks" /\ pc' = "report" /\ status' = "COMPLETED_SUCCESS"

\* C4: the rows change only when a call commits, and then every key written by
\* the call carries the source of the record written to it (whatever its
\* measured fields), while every other row is left as it was.
C4_SourceIsLastWriter ==
    [][ /\ store' # store => CommitStep
        /\ \A k \in DOMAIN store' :
             IF CommitStep /\ \E j \in 1..Len(values_to_insert) :
                                 KeyOf(values_to_insert[j]) = k
             THEN \A j \in 1..Len(values_to_insert) :
                     KeyOf(values_to_insert[j]) = k =>
                         store'[k].source = values_to_insert[j].source
             ELSE k \in DOMAIN store /\ store'[k] = store[k] ]_vars

\* C4 witness: a record with every measured field absent has been written to a
\* row of another source: the measured fields are the stored ones, the source
\* is the incoming one
C4_Witness ==
    /\ pc = "chunks"
    /\ \E j \in Applied :
         LET rec == values_to_insert[j]
             key == << rec.turbine_id, rec.date >>
         IN  /\ key \in DOMAIN store
             /\ \A f \in MeasuredFields : rec[f] = None
             /\ \E f \in MeasuredFields : store[key][f] # None
             /\ store[key].source # rec.source
             /\ txn[key].source = rec.source
             /\ \A f \in MeasuredFields : txn[key][f] = store[key][f]

\* C15: the table a call is about to commit is the result of
\* insert_measurements on the table before the call, and the table left by a
\* committed call is unchanged, in its key set, in every measured field and in
\* source, by a second call of insert_measurements with the same batch.
C15_UpsertIdempotent ==
    /\ ( pc = "chunks" /\ chunk_i >= Len(values_to_insert) )
        => txn = insert_measurements(store, consolidated_records, batch_size)
    /\ ( pc = "report" /\ status = "COMPLETED_SUCCESS" )
        => insert_measurements(store, consolidated_records, batch_size) = store

\* C15 witness: the second call has submitted a batch of two keys onto a table
\* that holds exactly the rows of that batch, with values in both rows, and
\* the table it is about to commit is the stored one
C15_Witness ==
    /\ pc = "chunks"
    /\ runs = 2
    /\ chunk_i >= Len(values_to_insert)
    /\ Len(values_to_insert) = 2
    /\ DOMAIN store = { KeyOf(values_to_insert[j]) : j \in 1..2 }
    /\ \A j \in 1..2 :
         /\ store[KeyOf(values_to_insert[j])] = values_to_insert[j]
         /\ \E f \in MeasuredFields : values_to_insert[j][f] # None
    /\ \E j \in 1..2 : values_to_insert[j].energie_kwh = Num(85000)
    /\ txn = store

\* C25: the table changes only when a call commits after its last chunk;
\* each chunk holds the next records of the deduplicated batch, at least one
\* and at most batch_size, and leaves the table as it was; a failure leaves the
\* table as it was before the call; a commit leaves the table with every
\* deduplicated record applied once, in order, and returns their number; an
\* empty batch returns 0 and leaves the table untouched.
C25_AllOrNothing ==
    [][ /\ store' # store => ( CommitStep /\ chunk_i >= Len(values_to_insert) )
        /\ ( pc = "chunks" /\ pc' = "chunks" )
            => /\ chunk_i < Len(values_to_insert)
               /\ (inserted' - inserted) \in 1..batch_size
               /\ txn' = ExecuteValues(txn, SubSeq(values_to_insert, inserted + 1, inserted'))
               /\ store' = store
        /\ ( pc = "chunks" /\ status' = "COMPLETED_FAILURE" )
            => /\ store' = store
               /\ lignes_chargees' = 0
        /\ CommitStep
            => /\ inserted = Len(values_to_insert)
               /\ values_to_insert = deduplicate_and_merge_records(consolidated_records)
               /\ store' = ExecuteValues(store, values_to_insert)
               /\ lignes_chargees' = Len(values_to_insert)
        /\ ( pc = "load" /\ Len(consolidated_records) = 0 )
            => /\ pc' = "report"
               /\ status' = "COMPLETED_SUCCESS"
               /\ store' = store
               /\ lignes_chargees' = 0 ]_vars

\* C25 witness: with chunks of one record, the second chunk of a call failed
\* after the first had been submitted; the table is the non-empty one of
\* before the call and lacks the key of the first chunk
C25_Witness ==
    /\ pc = "report"
    /\ status = "COMPLETED_FAILURE"
    /\ batch_size = 1
    /\ Len(values_to_insert) = 2
    /\ inserted = 1
    /\ store # EmptyTable
    /\ KeyOf(values_to_insert[1]) \notin DOMAIN store
    /\ txn = store

----------------------------------------------------------------------------
(* Properties of the deduplication (SpecLoad) *)

KeysOf(rows) == { KeyOf(rows[j]) : j \in 1..Len(rows) }

\* the state holds the argument and the result of one deduplication
Deduplicated == pc \in { "chunks", "report" }

\* C6: the deduplicated batch has exactly one record for each key of the input
\* batch and no other key, and that record is the last input record of the key.
C6_LastWriterWins ==
    Deduplicated =>
        /\ KeysOf(values_to_insert) = KeysOf(consolidated_records)
        /\ \A k \in KeysOf(consolidated_records) :
             Cardinality({ j \in 1..Len(values_to_insert) :
                             KeyOf(values_to_insert[j]) = k }) = 1
        /\ \A j \in 1..Len(values_to_insert) :
             \E l \in 1..Len(consolidated_records) :
                 /\ values_to_insert[j] = consolidated_records[l]
                 /\ \A l2 \in (l + 1)..Len(consolidated_records) :
                      KeyOf(consolidated_records[l2]) # KeyOf(values_to_insert[j])

\* C6 witness: two different records of one key went in, the later one came out
C6_Witness ==
    /\ Deduplicated
    /\ \E l1, l2 \in 1..Len(consolidated_records) :
         /\ l1 < l2
         /\ KeyOf(consolidated_records[l1]) = KeyOf(consolidated_records[l2])
         /\ consolidated_records[l1] # consolidated_records[l2]
         /\ consolidated_records[l1].wind_ms # None
         /\ consolidated_records[l2].wind_ms = None
         /\ \E j \in 1..Len(values_to_insert) :
              values_to_insert[j] = consolidated_records[l2]

\* C7: deduplicating the deduplicated batch gives it back unchanged, and the
\* output has no more records and no more keys than the input has keys.
C7_DedupIdempotent ==
    Deduplicated =>
        /\ deduplicate_and_merge_records(values_to_insert) = values_to_insert
        /\ Len(values_to_insert) <= Cardinality(KeysOf(consolidated_records))
        /\ Cardinality(KeysOf(values_to_insert))
             <= Cardinality(KeysOf(consolidated_records))

\* C7 witness: a batch with a repeated key was shortened
C7_Witness ==
    /\ Deduplicated
    /\ Len(values_to_insert) < Len(consolidated_records)
    /\ Len(values_to_insert) > 0

----------------------------------------------------------------------------
(* Properties of a whole run (Spec) *)

\* the write of the run has been committed; consolidated_records is still the
\* batch that run() handed to insert_measurements
RunWritten == pc \in { "report", "exited" } /\ status = "COMPLETED_SUCCESS"

OnlyField(rec, f, x) ==
    /\ rec[f] = x
    /\ \A g \in MeasuredFields \ { f } : rec[g] = None

\* C3: when the batch handed to the write step holds a sensor record with
\* wind_ms = 12.3 and nothing else, followed by a weather record of the same
\* key with temperature_k = 280.1 and nothing else, the stored row of the key
\* has wind_ms = 12.3, temperature_k = 280.1 and the weather source.
C3_NoSourceErased ==
    RunWritten =>
        \A j, l \in 1..Len(consolidated_records) :
            LET a == consolidated_records[j]
                b == consolidated_records[l]
            IN  ( /\ j < l
                  /\ KeyOf(a) = KeyOf(b)
                  /\ a.source = Str("db_sensor")
                  /\ OnlyField(a, "wind_ms", Num(1230))
                  /\ b.source = Str("api_weather")
                  /\ OnlyField(b, "temperature_k", Num(28010)) )
                => /\ KeyOf(a) \in DOMAIN store
                   /\ store[KeyOf(a)].wind_ms = Num(1230)
                   /\ store[KeyOf(a)].temperature_k = Num(28010)
                   /\ store[KeyOf(a)].source = Str("api_weather")

\* a raw value that stands for "no value": None, NaN, a blank string
Missing(x) == x = None \/ x = NaN \/ (x.t = "str" /\ Strip(x.s) = "")

\* a raw value that is literally zero
RawZero(x) == x = Num(0) \/ x = Str("0")

\* the batch at the merge-upsert step still lines up with the raw rows
AtWriteStep == pc \in { "load", "chunks", "report" }

\* C5: in the batch that reaches the merge-upsert step, a field whose raw
\* input was missing or blank is absent, and a field whose raw input was
\* literally zero is a present zero (False for a flag).
C5_AbsentAndZeroDistinct ==
    AtWriteStep =>
        /\ \A j \in 1..Len(sensor_rows) :
             \A f \in { "temperature_k", "wind_ms", "vibration_mm_s", "consumption_kwh" } :
                 LET x == Get(sensor_rows[j], f)
                     y == consolidated_records[j][f]
                 IN  /\ Missing(x) => y = None
                     /\ RawZero(x) => y = Num(0)
        /\ \A j \in 1..Len(production_rows) :
             LET raw == production_rows[j]
                 rec == consolidated_records[Len(sensor_rows) + j]
             IN  /\ Missing(Get(raw, "energie_kWh")) => rec.energie_kwh = None
                 /\ RawZero(Get(raw, "energie_kWh")) => rec.energie_kwh = Num(0)
                 /\ \A f \in { "arret_planifie", "arret_non_planifie" } :
                      /\ Missing(Get(raw, f)) => rec[f] = None
                      /\ RawZero(Get(raw, f)) => rec[f] = Bool(FALSE)
        /\ \A j \in 1..Len(transformed_api) :
             LET rec == consolidated_records[Len(sensor_rows) + Len(production_rows) + j]
                 hour == ((j - 1) \div (Len(transformed_api)
                                          \div Len(weather_data.hourly.time))) + 1
             IN  /\ Missing(weather_data.hourly.temperature_2m[hour])
                        => rec.temperature_k = None
                 /\ Missing(weather_data.hourly.windspeed_10m[hour])
                        => rec.wind_ms = None

----------------------------------------------------------------------------
(* Properties of quality_check (SpecQuality) *)

\* the batch as enforce_schema returned it, before quality_check mutated it
BeforeQuality ==
    enforce_schema(transformed_sensor \o transformed_production \o transformed_api)

\* quality_check has run on the batch of this state
QualityDone == pc \in { "load", "chunks", "report", "exited" }

\* outside the range as the specification gives it, in hundredths
OutsideRange(f, x) ==
    /\ x.t = "num"
    /\ CASE f = "wind_ms"         -> x.v < 0 \/ x.v > 4200
         [] f = "temperature_k"   -> x.v < 20000 \/ x.v > 33000
         [] f = "vibration_mm_s"  -> x.v < 0 \/ x.v > 2500
         [] f = "energie_kwh"     -> x.v < 0
         [] f = "consumption_kwh" -> x.v < 0

Nulled(j, f) == BeforeQuality[j][f] # None /\ consolidated_records[j][f] = None

\* C8: quality_check sets a field to absent exactly when it was present and
\* outside its range (the bounds 0, 42, 200, 330, 25 are kept), leaves every
\* other checked field as it was, and returns the number of fields it nulled.
C8_QualityNullsExactly ==
    QualityDone =>
        /\ Len(consolidated_records) = Len(BeforeQuality)
        /\ \A j \in 1..Len(BeforeQuality) : \A f \in CheckedFields :
             /\ Nulled(j, f) <=> OutsideRange(f, BeforeQuality[j][f])
             /\ ~Nulled(j, f) => consolidated_records[j][f] = BeforeQuality[j][f]
        /\ anomalies_count =
             Cardinality({ jf \in (1..Len(BeforeQuality)) \X CheckedFields :
                             Nulled(jf[1], jf[2]) })

\* C8 witness: a wind of 42.0 was kept, a wind of 42.01 in another record was
\* nulled, and several fields were counted
C8_Witness ==
    /\ QualityDone
    /\ anomalies_count >= 3
    /\ \E j, l \in 1..Len(consolidated_records) :
         /\ BeforeQuality[j].wind_ms = Num(4200)
         /\ consolidated_records[j].wind_ms = Num(4200)
         /\ BeforeQuality[l].wind_ms = Num(4201)
         /\ consolidated_records[l].wind_ms = None

\* C9: quality_check keeps the length and the sequence of keys of the batch,
\* leaves turbine_id, date, source, the outage flags and every absent or
\* in-range measured field unchanged, and every key of the batch is written
\* whatever the anomaly count.
C9_QualityFrame ==
    QualityDone =>
        /\ Len(consolidated_records) = Len(BeforeQuality)
        /\ \A j \in 1..Len(BeforeQuality) :
             /\ KeyOf(consolidated_records[j]) = KeyOf(BeforeQuality[j])
             /\ \A k \in SchemaKeySet \ CheckedFields :
                  consolidated_records[j][k] = BeforeQuality[j][k]
             /\ \A f \in CheckedFields :
                  ( \/ BeforeQuality[j][f] = None
                    \/ BeforeQuality[j][f].t = "num"
                         /\ ~OutsideRange(f, BeforeQuality[j][f]) )
                  => consolidated_records[j][f] = BeforeQuality[j][f]
        /\ pc \in { "chunks", "report" } =>
             KeysOf(values_to_insert) = KeysOf(BeforeQuality)
        /\ (pc = "report" /\ status = "COMPLETED_SUCCESS") =>
             KeysOf(BeforeQuality) \subseteq DOMAIN store

\* C9 witness: a record with an offending field and set outage flags was
\* written with its flags, its key and its in-range fields
C9_Witness ==
    /\ pc = "report"
    /\ status = "COMPLETED_SUCCESS"
    /\ anomalies_count > 0
    /\ \E j \in 1..Len(BeforeQuality) :
         /\ BeforeQuality[j].temperature_k = Num(33001)
         /\ BeforeQuality[j].arret_planifie = Bool(TRUE)
         /\ KeyOf(BeforeQuality[j]) \in DOMAIN store
         /\ store[KeyOf(BeforeQuality[j])].temperature_k = None
         /\ store[KeyOf(BeforeQuality[j])].wind_ms = Num(1230)
         /\ store[KeyOf(BeforeQuality[j])].arret_planifie = Bool(TRUE)

----------------------------------------------------------------------------
(* Extraction failures (Spec) *)

CountSource(records, src) ==
    Cardinality({ j \in 1..Len(records) : records[j].source = Str(src) })

\* the run was ended by an exception that left run()
RunAborted == pc = "exited" /\ exit_code = Num(1) /\ status = "RUNNING"

\* an adapter raised on the rows of this run
AdapterRaised ==
    \/ ProductionRaises(production_rows)
    \/ \E ids \in ListsOf(ActiveTurbines(transform_sensor_rows(sensor_rows),
                                         transform_production_rows(production_rows))) :
          ApiRaises(weather_data, ids)

\* C10: a source whose extraction failed contributes no rows and no records; a
\* run is never ended by an extraction failure (only by an adapter that
\* raises); and the batch built for the write holds one record for every raw
\* row of the sensor and production sources that were read.
C10_ExtractionIsolated ==
    /\ "db_sensor" \in failed => sensor_rows = << >>
    /\ "csv_production" \in failed => production_rows = << >>
    /\ "api_weather" \in failed => weather_data = EmptyDict
    /\ RunAborted => AdapterRaised
    /\ pc \in { "quality", "load", "chunks", "report" } =>
         /\ CountSource(consolidated_records, "db_sensor") = Len(sensor_rows)
         /\ CountSource(consolidated_records, "csv_production") = Len(production_rows)
         /\ \A s \in failed : CountSource(consolidated_records, s) = 0

\* C10 witness: the CSV extraction failed and the run still wrote the sensor
\* and weather records
C10_Witness ==
    /\ pc = "report"
    /\ status = "COMPLETED_SUCCESS"
    /\ failed = { "csv_production" }
    /\ CountSource(consolidated_records, "db_sensor") > 0
    /\ CountSource(consolidated_records, "api_weather") > 0
    /\ KeysOf(consolidated_records) \subseteq DOMAIN store

----------------------------------------------------------------------------
(* Failure of the write and end of the run (Spec) *)

\* C11: a write that is abandoned while chunks remain ends in
\* COMPLETED_FAILURE with nothing committed; and once a run is in
\* COMPLETED_FAILURE no further chunk is submitted, the counter and the table
\* stay as they are, the status never becomes COMPLETED_SUCCESS and
\* lignes_chargees stays 0 until the next run starts.
C11_StorageFailureFatal ==
    [][ /\ ( pc = "chunks" /\ pc' = "report" /\ chunk_i < Len(values_to_insert) )
            => /\ status' = "COMPLETED_FAILURE"
               /\ store' = store
        /\ ( pc = "chunks" /\ status' = "COMPLETED_FAILURE" )
            => /\ pc' = "report"
               /\ store' = store
               /\ chunk_i' = chunk_i
               /\ inserted' = inserted
               /\ lignes_chargees' = 0
        /\ ( status = "COMPLETED_FAILURE" /\ runs' = runs )
            => /\ status' = "COMPLETED_FAILURE"
               /\ pc' \in { "report", "exited" }
               /\ store' = store
               /\ txn' = txn
               /\ chunk_i' = chunk_i
               /\ inserted' = inserted
               /\ lignes_chargees' = 0 ]_vars

\* C11 witness: the second chunk failed after the first had been submitted;
\* the run reports the failure and the table is the one before the call
C11_Witness ==
    /\ pc = "report"
    /\ status = "COMPLETED_FAILURE"
    /\ inserted >= 1
    /\ chunk_i < Len(values_to_insert)
    /\ lignes_chargees = 0
    /\ txn = store
    /\ \E j \in 1..Len(values_to_insert) : KeyOf(values_to_insert[j]) \notin DOMAIN store

\* C12: a run that got past the configuration and has ended has printed its
\* summary with the status COMPLETED_SUCCESS or COMPLETED_FAILURE.
C12_SummaryAlways ==
    ( pc = "exited" /\ status # "NONE" )
        => status \in { "COMPLETED_SUCCESS", "COMPLETED_FAILURE" }

\* C13: a job that has ended either committed its write or has a non-zero exit
\* status; with COMPLETED_FAILURE the exit status is non-zero; without a
\* configuration the exit status is non-zero and nothing was extracted.
C13_CompletesOrExitsNonZero ==
    pc = "exited" =>
        /\ status = "COMPLETED_SUCCESS" \/ exit_code # Num(0)
        /\ status = "COMPLETED_FAILURE" => exit_code # Num(0)
        /\ status = "NONE" =>
             /\ exit_code # Num(0)
             /\ sensor_rows = << >>
             /\ production_rows = << >>
             /\ weather_data = EmptyDict

----------------------------------------------------------------------------
(* Properties of the adapters (SpecAdapt) *)

\* a string that is neither blank nor a number
NonNumeric(x) == x.t = "str" /\ Strip(x.s) # "" /\ Strip(x.s) \notin FloatStrings

\* the hour of the j-th weather record when the samples are fanned out over m ids
HourOf(j, m) == ((j - 1) \div m) + 1

\* the number of hourly samples of the payload
Hours == IF "hourly" \in DOMAIN weather_data THEN Len(weather_data.hourly.time) ELSE 0

\* the payload has the arrays transform_api_rows indexes: a malformed value
\* is then the only thing that can go wrong in the step
PayloadIndexable ==
    \A ids \in ListsOf(ActiveTurbines(transform_sensor_rows(sensor_rows),
                                       transform_production_rows(production_rows))) :
        ~ApiRaises(weather_data, ids)

\* C14: the transformation step returns to run() whatever values the raw rows
\* hold, with one record for each production row; a non-numeric energie_kWh,
\* an unparseable date and a non-numeric weather sample give an absent field,
\* a non-numeric flag gives False.
C14_ParseFailuresLocal ==
    ( pc # "transform" /\ PayloadIndexable ) =>
        /\ pc = "quality"
        /\ Len(transformed_production) = Len(production_rows)
        /\ \A j \in 1..Len(transformed_production) :
             LET raw == production_rows[j]
                 rec == transformed_production[j]
             IN  /\ NonNumeric(Get(raw, "energie_kWh")) => rec.energie_kwh = None
                 /\ Get(raw, "date").t = "str" => rec.date = None
                 /\ \A f \in { "arret_planifie", "arret_non_planifie" } :
                      NonNumeric(Get(raw, f)) => rec[f] = Bool(FALSE)
        /\ \A j \in 1..Len(transformed_api) :
             LET hourly == weather_data.hourly
                 i == HourOf(j, Len(transformed_api) \div Hours)
             IN  /\ NonNumeric(hourly.temperature_2m[i])
                        => transformed_api[j].temperature_k = None
                 /\ NonNumeric(hourly.windspeed_10m[i])
                        => transformed_api[j].wind_ms = None

\* C16: with n hourly samples and the set A of active ids, transform_api_rows
\* returns n * |A| records; the records of hour i are one for each id of A,
\* they carry the parsed time of the hour and the weather source and are equal
\* in every field except turbine_id.
C16_WeatherFanOut ==
    pc = "quality" =>
        LET A == ActiveTurbines(transformed_sensor, transformed_production)
            m == Cardinality(A)
        IN  /\ Len(transformed_api) = Hours * m
            /\ \A i \in 1..Hours :
                 LET block == ((i - 1) * m + 1)..(i * m) IN
                 /\ \A a \in A :
                      Cardinality({ j \in block : transformed_api[j].turbine_id = a }) = 1
                 /\ \A j \in block :
                      /\ transformed_api[j].date = parse_date(weather_data.hourly.time[i])
                      /\ transformed_api[j].source = Str("api_weather")
                      /\ \A f \in MeasuredFields \ { "temperature_k", "wind_ms" } :
                           transformed_api[j][f] = None
                 /\ \A j, l \in block : \A k \in SchemaKeySet \ { "turbine_id" } :
                      transformed_api[j][k] = transformed_api[l][k]

\* C16 witness: two hourly samples over T001 and T002 gave four records
C16_Witness ==
    /\ pc = "quality"
    /\ ActiveTurbines(transformed_sensor, transformed_production)
         = { Str("T001"), Str("T002") }
    /\ Hours = 2
    /\ Len(transformed_api) = 4
    /\ transformed_api[1].turbine_id # transformed_api[2].turbine_id
    /\ transformed_api[1].wind_ms = Num(100)

\* C17: when no turbine id comes from the sensor and production sources and
\* the weather payload has hourly samples, the run still builds weather
\* records (over a fallback set of ids).
C17_FallbackFanOut ==
    ( /\ pc \in { "quality", "load", "chunks", "report" }
      /\ ActiveTurbines(transformed_sensor, transformed_production) = {}
      /\ Hours > 0 )
        => Len(transformed_api) > 0

\* the payload has the shape time / temperature_2m / wind_speed_10m
DocumentedPayload ==
    IF "hourly" \notin DOMAIN weather_data THEN FALSE
    ELSE { "time", "temperature_2m", "wind_speed_10m" } \subseteq DOMAIN weather_data.hourly

\* the active ids as run() computes them from the raw rows
RawActive ==
    ActiveTurbines(transform_sensor_rows(sensor_rows),
                   transform_production_rows(production_rows))

\* C18: given a payload with the arrays time, temperature_2m and
\* wind_speed_10m and at least one active id, the weather adapter returns, and
\* the record of hour i has temperature_k = celsius_to_kelvin(temperature_2m[i])
\* and wind_ms = kmh_to_ms(wind_speed_10m[i]).
C18_DocumentedPayloadAccepted ==
    ( /\ pc # "transform"
      /\ DocumentedPayload
      /\ RawActive # {}
      /\ ~ProductionRaises(production_rows) )
        => /\ pc = "quality"
           /\ Len(transformed_api) = Hours * Cardinality(RawActive)
           /\ \A j \in 1..Len(transformed_api) :
                LET i == HourOf(j, Cardinality(RawActive)) IN
                /\ transformed_api[j].temperature_k
                     = celsius_to_kelvin(weather_data.hourly.temperature_2m[i])
                /\ transformed_api[j].wind_ms
                     = kmh_to_ms(weather_data.hourly.wind_speed_10m[i])

\* the id of a raw production row, under turbin_id or under turbine_id
RawId(raw) == IF "turbin_id" \in DOMAIN raw THEN raw.turbin_id ELSE Get(raw, "turbine_id")

\* C19: transform_production_rows emits one record for each raw row, with the
\* upper-cased id (read from turbin_id or turbine_id), the parsed energy when
\* the field is numeric and an absent energy when it is blank, None, missing
\* or not-a-number, the two flags as safe_bool_int gives them (blank is False,
\* "1" is True), the four sensor and weather fields absent and the production
\* source; the row {t001, "850", "1", ""} gives T001, 850.0, True, False.
C19_ProductionMapping ==
    pc = "quality" =>
        /\ Len(transformed_production) = Len(production_rows)
        /\ \A j \in 1..Len(transformed_production) :
             LET raw == production_rows[j]
                 rec == transformed_production[j]
                 x   == Get(raw, "energie_kWh")
             IN  /\ rec.turbine_id = Str(Upper(PyStr(RawId(raw))))
                 /\ x.t = "num" => rec.energie_kwh = x
                 /\ ( x.t = "str" /\ Strip(x.s) \in FloatStrings )
                        => rec.energie_kwh = Num(FloatOf(Strip(x.s)))
                 /\ Missing(x) => rec.energie_kwh = None
                 /\ \A f \in { "arret_planifie", "arret_non_planifie" } :
                      /\ rec[f] = safe_bool_int(Get(raw, f))
                      /\ Get(raw, f) = Str("") => rec[f] = Bool(FALSE)
                      /\ Get(raw, f) = Str("1") => rec[f] = Bool(TRUE)
                 /\ \A f \in { "temperature_k", "wind_ms", "vibration_mm_s",
                                "consumption_kwh" } : rec[f] = None
                 /\ rec.source = Str("csv_production")
                 /\ ( /\ RawId(raw) = Str("t001")
                      /\ x = Str("850")
                      /\ Get(raw, "arret_planifie") = Str("1")
                      /\ Get(raw, "arret_non_planifie") = Str("") )
                    => /\ rec.turbine_id = Str("T001")
                       /\ rec.energie_kwh = Num(850 * Scale)
                       /\ rec.arret_planifie = Bool(TRUE)
                       /\ rec.arret_non_planifie = Bool(FALSE)

----------------------------------------------------------------------------
(* Properties of enforce_schema (SpecSchema) *)

\* the list run() hands to enforce_schema
Consolidated == transformed_sensor \o transformed_production \o transformed_api

\* C20: the output of enforce_schema has the length and the order of its
\* input; each output record has exactly the ten FULL_SCHEMA_KEYS, inserted in
\* their fixed order, each with the value of the input record when it has the
\* key and absent otherwise; and enforce_schema of the output is the output.
C20_EnforceSchemaTotal ==
    pc = "quality" =>
        /\ Len(consolidated_records) = Len(Consolidated)
        /\ \A j \in 1..Len(Consolidated) :
             LET r     == Consolidated[j]
                 o     == consolidated_records[j]
                 items == EnforceItems(r)
             IN  /\ DOMAIN o = SchemaKeySet
                 /\ Cardinality(DOMAIN o) = 10
                 /\ [ i \in 1..Len(items) |-> items[i].key ] = FULL_SCHEMA_KEYS
                 /\ \A i \in 1..Len(items) : o[items[i].key] = items[i].value
                 /\ \A k \in SchemaKeySet : o[k] = IF k \in DOMAIN r THEN r[k] ELSE None
                 /\ EnforceRecord(o) = o
        /\ enforce_schema(consolidated_records) = consolidated_records

\* C20 witness: a record with two fields and a record with a key that is not
\* a column came out with the ten columns, in the order they went in
C20_Witness ==
    /\ pc = "quality"
    /\ Len(Consolidated) = 2
    /\ DOMAIN Consolidated[1] = { "turbine_id", "wind_ms" }
    /\ "humidity" \in DOMAIN Consolidated[2]
    /\ consolidated_records[1].wind_ms = Num(1230)
    /\ consolidated_records[1].date = None
    /\ consolidated_records[2].source = Str("db_sensor")
    /\ DOMAIN consolidated_records[2] = SchemaKeySet

----------------------------------------------------------------------------
(* Invariants of the canonical record (SpecRun, Spec) *)

BothOutages(r) == r.arret_planifie = Bool(TRUE) /\ r.arret_non_planifie = Bool(TRUE)

\* C21: no record emitted by the production adapter, no record of the batch
\* handed to the write and no stored row has arret_planifie and
\* arret_non_planifie both true.
C21_OutagesExclusive ==
    /\ \A j \in 1..Len(transformed_production) : ~BothOutages(transformed_production[j])
    /\ \A j \in 1..Len(values_to_insert) : ~BothOutages(values_to_insert[j])
    /\ \A k \in DOMAIN store : ~BothOutages(store[k])

\* a non-empty identifier in upper case
NormalId(x) == x.t = "str" /\ x.s # "" /\ Upper(x.s) = x.s

\* the adapters have returned the records of the raw rows of this run
Transformed ==
    /\ pc \in { "quality", "load", "chunks", "report" }
    /\ Len(transformed_sensor) = Len(sensor_rows)
    /\ Len(transformed_production) = Len(production_rows)

\* C22: every record that leaves an adapter, and every record of the batch
\* handed to the deduplication and the upsert, has a non-empty upper-case
\* turbine_id; a sensor row and a production row that name the same turbine in
\* different letter case get the same turbine_id and one entry in the active
\* set; a production row without an id gets no placeholder id.
C22_IdsNormalized ==
    /\ \A j \in 1..Len(consolidated_records) : NormalId(consolidated_records[j].turbine_id)
    /\ \A j \in 1..Len(values_to_insert) : NormalId(values_to_insert[j].turbine_id)
    /\ Transformed =>
         /\ \A i \in 1..Len(sensor_rows) : \A j \in 1..Len(production_rows) :
              LET a == Get(sensor_rows[i], "turbine_id")
                  b == RawId(production_rows[j])
              IN  ( a # None /\ b # None /\ Upper(PyStr(a)) = Upper(PyStr(b)) )
                  => /\ transformed_sensor[i].turbine_id
                          = transformed_production[j].turbine_id
                     /\ Cardinality(ActiveTurbines(<< transformed_sensor[i] >>,
                                                   << transformed_production[j] >>)) = 1
         /\ \A j \in 1..Len(production_rows) :
              RawId(production_rows[j]) = None
                  => transformed_production[j].turbine_id \notin { Str("NONE"), Str("None") }

\* the one rule: an offset is converted to UTC, a naive value is taken as
\* Europe/Paris time and converted to UTC
UniformUtc(d) ==
    IF d.t \in { "datetime", "datestr" }
    THEN IF d.tz # None THEN Dt(d.h - d.tz.v, None) ELSE Dt(d.h - PARIS_OFFSET, None)
    ELSE None

\* C23: the date of every record is the UTC instant the one rule gives for
\* the raw value, for the structured datetimes of the sensor rows (also when
\* parse_date is applied to them) as for the strings of the production and
\* weather rows; a sensor row and a production row with the same naive
\* wall-clock time get the same date.
C23_TimestampPolicyUniform ==
    Transformed =>
        /\ \A i \in 1..Len(sensor_rows) :
             /\ transformed_sensor[i].date = UniformUtc(Get(sensor_rows[i], "date"))
             /\ parse_date(Get(sensor_rows[i], "date"))
                  = UniformUtc(Get(sensor_rows[i], "date"))
        /\ \A j \in 1..Len(production_rows) :
             transformed_production[j].date = UniformUtc(Get(production_rows[j], "date"))
        /\ \A j \in 1..Len(transformed_api) :
             transformed_api[j].date
               = UniformUtc(weather_data.hourly.time[HourOf(j, Len(transformed_api) \div Hours)])
        /\ \A i \in 1..Len(sensor_rows) : \A j \in 1..Len(production_rows) :
             LET a == Get(sensor_rows[i], "date")
                 b == Get(production_rows[j], "date")
             IN  ( a.t = "datetime" /\ b.t = "datestr" /\ a.tz = None /\ b.tz = None
                   /\ a.h = b.h )
                 => transformed_sensor[i].date = transformed_production[j].date

----------------------------------------------------------------------------
(* The stored rows after pipeline runs (Spec) *)

\* a present value is a number inside the range of its field
Plausible(f, x) == x.t = "num" /\ ~OutsideRange(f, x)

\* C24: starting from the empty table, after any sequence of runs every
\* present checked value of every stored row is a number within its range:
\* wind_ms in [0, 42], temperature_k in [200, 330], vibration_mm_s in [0, 25],
\* energie_kwh >= 0, consumption_kwh >= 0.
C24_StoredValuesPlausible ==
    \A k \in DOMAIN store : \A f \in CheckedFields :
        store[k][f] # None => Plausible(f, store[k][f])

====
